---- MODULE Spec2Model ----
(***************************************************************************)
(* The login/signup form of main.py (class AuthForm) as a state machine.   *)
(* The state is the form object: its mode flag, its four text fields, the  *)
(* submit button's text, the toggle prompt's text, and the snack bar the   *)
(* page currently shows.  The events are the three things the user can do: *)
(* type into a visible text field, click the submit button                 *)
(* (validate_and_submit) and click the toggle prompt (toggle_mode).  Flet  *)
(* runs one event handler to completion before the next, so every handler  *)
(* is one atomic step.                                                     *)
(***************************************************************************)
EXTENDS Integers, Sequences, FiniteSets, TLC

\* Longest text the user types into a field.
MaxLen == 1

\* The characters the user types.
Chars == {"a", "b"}

\* The texts a field can hold: the empty text and the texts up to MaxLen.
Values == UNION {[1..n -> Chars] : n \in 0..MaxLen}

\* Python's truth test of a text: `not value` is true of the empty text only.
Truthy(value) == Len(value) > 0

\* class ThemeColors: the colour scheme.
ThemeColors ==
    [primary        |-> "BLUE",
     background     |-> "#1a1a1a",
     card_background |-> "#2d2d2d",
     text           |-> "WHITE",
     text_secondary |-> "BLUE_GREY_200",
     error          |-> "RED_400"]

\* CustomTextField(label, password, visible): a text field, empty when built.
CustomTextField(label, password, visible) ==
    [label |-> label, password |-> password, visible |-> visible, value |-> <<>>]

\* ft.SnackBar(content=ft.Text(message, color=color), bgcolor=bgcolor)
SnackBar(message, color, bgcolor) ==
    [message |-> message, color |-> color, bgcolor |-> bgcolor]

\* The page shows no snack bar until the first show_snack_bar call.
NoSnackBar == [message |-> "", color |-> "", bgcolor |-> ""]

\* A snack bar styled as show_error styles it: an Error notification.
IsError(bar) ==
    bar.color = ThemeColors.error /\ bar.bgcolor = ThemeColors.card_background

\* A snack bar styled as show_success styles it: a Success notification.
IsSuccess(bar) ==
    bar.color = ThemeColors.text /\ bar.bgcolor = ThemeColors.primary

\* The mode the flag is_login stands for.
Mode(login) == IF login THEN "Login" ELSE "Signup"

\* The names of the form's four text fields.
Fields == {"name_field", "email_field", "pass_field", "confirm_pass_field"}

VARIABLES
    is_login,            \* self.is_login
    name_field,          \* self.name_field
    email_field,         \* self.email_field
    pass_field,          \* self.pass_field
    confirm_pass_field,  \* self.confirm_pass_field
    submit_button,       \* self.submit_button.text
    toggle_text,         \* self.toggle_text.value
    snack_bar,           \* the snack bar the page shows (self.page)
    shown,               \* the show_snack_bar calls of the last event, in order
    event,               \* the last event handled
    toggles,             \* how many toggle clicks in a row just happened, 0..2
    base,                \* the form as it was before the first of those clicks
    recovering           \* the mode whose submit last failed, while only
                         \* field edits have followed it; "no" otherwise

vars == <<is_login, name_field, email_field, pass_field, confirm_pass_field,
          submit_button, toggle_text, snack_bar, shown, event, toggles, base,
          recovering>>

\* The form object and the page's snack bar, as one record.
AuthForm ==
    [is_login           |-> is_login,
     name_field         |-> name_field,
     email_field        |-> email_field,
     pass_field         |-> pass_field,
     confirm_pass_field |-> confirm_pass_field,
     submit_button      |-> submit_button,
     toggle_text        |-> toggle_text,
     snack_bar          |-> snack_bar,
     shown              |-> shown]

\* AuthForm.__init__ and initialize_fields: the form as constructed.
initialize_fields ==
    [is_login           |-> TRUE,
     name_field         |-> CustomTextField("Username", FALSE, TRUE),
     email_field        |-> CustomTextField("Email", FALSE, FALSE),
     pass_field         |-> CustomTextField("Password", TRUE, TRUE),
     confirm_pass_field |-> CustomTextField("Confirm Password", TRUE, FALSE),
     submit_button      |-> "Login",
     toggle_text        |-> "New here? Sign Up!",
     snack_bar          |-> NoSnackBar,
     shown              |-> <<>>]

\* self.page.show_snack_bar(bar): the page shows bar in place of any other.
show_snack_bar(self, bar) ==
    [self EXCEPT !.snack_bar = bar, !.shown = Append(@, bar)]

\* AuthForm.show_error
show_error(self, message) ==
    show_snack_bar(self,
        SnackBar(message, ThemeColors.error, ThemeColors.card_background))

\* AuthForm.show_success
show_success(self, message) ==
    show_snack_bar(self,
        SnackBar(message, ThemeColors.text, ThemeColors.primary))

\* validate_and_submit with the password check put before the username check.
validate_and_submit_password_first(self) ==
    IF ~Truthy(self.pass_field.value)
    THEN show_error(self, "Please enter password")
    ELSE IF ~Truthy(self.name_field.value)
    THEN show_error(self, "Please enter username")
    ELSE IF ~self.is_login /\ ~Truthy(self.email_field.value)
    THEN show_error(self, "Please enter email")
    ELSE IF ~self.is_login
            /\ self.pass_field.value # self.confirm_pass_field.value
    THEN show_error(self, "Passwords don't match!")
    ELSE LET action == IF self.is_login THEN "Login" ELSE "Signup"
         IN  show_success(self, action \o " successful!")

\* validate_and_submit with the password confirmation check left out.
validate_and_submit_no_confirm_check(self) ==
    IF ~Truthy(self.name_field.value)
    THEN show_error(self, "Please enter username")
    ELSE IF ~Truthy(self.pass_field.value)
    THEN show_error(self, "Please enter password")
    ELSE IF ~self.is_login /\ ~Truthy(self.email_field.value)
    THEN show_error(self, "Please enter email")
    ELSE LET action == IF self.is_login THEN "Login" ELSE "Signup"
         IN  show_success(self, action \o " successful!")

\* validate_and_submit with the success text taken from the button's label.
validate_and_submit_button_label(self) ==
    IF ~Truthy(self.name_field.value)
    THEN show_error(self, "Please enter username")
    ELSE IF ~Truthy(self.pass_field.value)
    THEN show_error(self, "Please enter password")
    ELSE IF ~self.is_login /\ ~Truthy(self.email_field.value)
    THEN show_error(self, "Please enter email")
    ELSE IF ~self.is_login
            /\ self.pass_field.value # self.confirm_pass_field.value
    THEN show_error(self, "Passwords don't match!")
    ELSE show_success(self, self.submit_button \o " successful!")

\* validate_and_submit that empties the two password fields once it succeeds.
validate_and_submit_clears_passwords(self) ==
    IF ~Truthy(self.name_field.value)
    THEN show_error(self, "Please enter username")
    ELSE IF ~Truthy(self.pass_field.value)
    THEN show_error(self, "Please enter password")
    ELSE IF ~self.is_login /\ ~Truthy(self.email_field.value)
    THEN show_error(self, "Please enter email")
    ELSE IF ~self.is_login
            /\ self.pass_field.value # self.confirm_pass_field.value
    THEN show_error(self, "Passwords don't match!")
    ELSE LET action == IF self.is_login THEN "Login" ELSE "Signup"
             cleared == [self EXCEPT !.pass_field.value = <<>>,
                                     !.confirm_pass_field.value = <<>>]
         IN  show_success(cleared, action \o " successful!")

\* validate_and_submit without the `return` after the username error: the
\* handler goes on to the checks that follow.
validate_and_submit_missing_return(self) ==
    LET s1 == IF ~Truthy(self.name_field.value)
              THEN show_error(self, "Please enter username")
              ELSE self
    IN  IF ~Truthy(s1.pass_field.value)
        THEN show_error(s1, "Please enter password")
        ELSE IF ~s1.is_login /\ ~Truthy(s1.email_field.value)
        THEN show_error(s1, "Please enter email")
        ELSE IF ~s1.is_login
                /\ s1.pass_field.value # s1.confirm_pass_field.value
        THEN show_error(s1, "Passwords don't match!")
        ELSE LET action == IF s1.is_login THEN "Login" ELSE "Signup"
             IN  show_success(s1, action \o " successful!")

\* validate_and_submit comparing the password's text with the confirmation
\* field itself instead of its text: the two are never equal.
validate_and_submit_compares_field(self) ==
    IF ~Truthy(self.name_field.value)
    THEN show_error(self, "Please enter username")
    ELSE IF ~Truthy(self.pass_field.value)
    THEN show_error(self, "Please enter password")
    ELSE IF ~self.is_login /\ ~Truthy(self.email_field.value)
    THEN show_error(self, "Please enter email")
    ELSE IF ~self.is_login
    THEN show_error(self, "Passwords don't match!")
    ELSE LET action == IF self.is_login THEN "Login" ELSE "Signup"
         IN  show_success(self, action \o " successful!")

\* validate_and_submit without the `if not self.is_login` guard: the signup
\* checks run in both modes.
validate_and_submit_unguarded(self) ==
    IF ~Truthy(self.name_field.value)
    THEN show_error(self, "Please enter username")
    ELSE IF ~Truthy(self.pass_field.value)
    THEN show_error(self, "Please enter password")
    ELSE IF ~Truthy(self.email_field.value)
    THEN show_error(self, "Please enter email")
    ELSE IF self.pass_field.value # self.confirm_pass_field.value
    THEN show_error(self, "Passwords don't match!")
    ELSE LET action == IF self.is_login THEN "Login" ELSE "Signup"
         IN  show_success(self, action \o " successful!")

\* AuthForm.validate_and_submit
validate_and_submit(self) ==
    IF ~Truthy(self.name_field.value)
    THEN show_error(self, "Please enter username")
    ELSE IF ~Truthy(self.pass_field.value)
    THEN show_error(self, "Please enter password")
    ELSE IF ~self.is_login /\ ~Truthy(self.email_field.value)
    THEN show_error(self, "Please enter email")
    ELSE IF ~self.is_login
            /\ self.pass_field.value # self.confirm_pass_field.value
    THEN show_error(self, "Passwords don't match!")
    ELSE LET action == IF self.is_login THEN "Login" ELSE "Signup"
         IN  show_success(self, action \o " successful!")

\* toggle_mode that forgets to update the toggle prompt's text.
toggle_mode_stale_prompt(self) ==
    LET s1 == [self EXCEPT !.is_login = ~self.is_login]
        s2 == [s1 EXCEPT !.confirm_pass_field.visible = ~s1.is_login]
        s3 == [s2 EXCEPT !.email_field.visible = ~s2.is_login]
    IN  [s3 EXCEPT !.submit_button =
             IF s3.is_login THEN "Login" ELSE "Sign Up"]

\* toggle_mode that sets is_login to False instead of negating it.
toggle_mode_one_way(self) ==
    LET s1 == [self EXCEPT !.is_login = FALSE]
        s2 == [s1 EXCEPT !.confirm_pass_field.visible = ~s1.is_login]
        s3 == [s2 EXCEPT !.email_field.visible = ~s2.is_login]
        s4 == [s3 EXCEPT !.submit_button =
                   IF s3.is_login THEN "Login" ELSE "Sign Up"]
    IN  [s4 EXCEPT !.toggle_text =
             IF s4.is_login THEN "New here? Sign Up!"
                            ELSE "Already have an account? Login!"]

\* toggle_mode that empties the two signup-only fields when it hides them.
toggle_mode_clears_hidden(self) ==
    LET s1 == [self EXCEPT !.is_login = ~self.is_login]
        s2 == [s1 EXCEPT !.confirm_pass_field.visible = ~s1.is_login,
                         !.confirm_pass_field.value =
                             IF s1.is_login THEN <<>> ELSE @]
        s3 == [s2 EXCEPT !.email_field.visible = ~s2.is_login,
                         !.email_field.value =
                             IF s2.is_login THEN <<>> ELSE @]
        s4 == [s3 EXCEPT !.submit_button =
                   IF s3.is_login THEN "Login" ELSE "Sign Up"]
    IN  [s4 EXCEPT !.toggle_text =
             IF s4.is_login THEN "New here? Sign Up!"
                            ELSE "Already have an account? Login!"]

\* AuthForm.toggle_mode
toggle_mode(self) ==
    LET s1 == [self EXCEPT !.is_login = ~self.is_login]
        s2 == [s1 EXCEPT !.confirm_pass_field.visible = ~s1.is_login]
        s3 == [s2 EXCEPT !.email_field.visible = ~s2.is_login]
        s4 == [s3 EXCEPT !.submit_button =
                   IF s3.is_login THEN "Login" ELSE "Sign Up"]
    IN  [s4 EXCEPT !.toggle_text =
             IF s4.is_login THEN "New here? Sign Up!"
                            ELSE "Already have an account? Login!"]

\* The user types value into a text field: Flet stores it in the field.
set_value(self, field, value) == [self EXCEPT ![field].value = value]

\* The form at the start of an event: no show_snack_bar call made yet.
Entering == [AuthForm EXCEPT !.shown = <<>>]

\* The form's variables take the values of the record self.
Become(self) ==
    /\ is_login' = self.is_login
    /\ name_field' = self.name_field
    /\ email_field' = self.email_field
    /\ pass_field' = self.pass_field
    /\ confirm_pass_field' = self.confirm_pass_field
    /\ submit_button' = self.submit_button
    /\ toggle_text' = self.toggle_text
    /\ snack_bar' = self.snack_bar
    /\ shown' = self.shown

\* What a run of toggle clicks is compared with: everything but the call log.
Snapshot(self) == [self EXCEPT !.shown = <<>>]

NoBase == [none |-> TRUE]

Init ==
    /\ is_login = initialize_fields.is_login
    /\ name_field = initialize_fields.name_field
    /\ email_field = initialize_fields.email_field
    /\ pass_field = initialize_fields.pass_field
    /\ confirm_pass_field = initialize_fields.confirm_pass_field
    /\ submit_button = initialize_fields.submit_button
    /\ toggle_text = initialize_fields.toggle_text
    /\ snack_bar = initialize_fields.snack_bar
    /\ shown = initialize_fields.shown
    /\ event = "init"
    /\ toggles = 0
    /\ base = NoBase
    /\ recovering = "no"

\* The user types into a text field; only a visible field can be typed into.
Change ==
    \E field \in Fields, value \in Values :
        /\ AuthForm[field].visible
        /\ Become(set_value(Entering, field, value))
        /\ event' = "change"
        /\ toggles' = 0
        /\ base' = NoBase
        /\ UNCHANGED recovering

\* The user clicks the submit button (on_click=self.validate_and_submit).
Submit ==
    /\ Become(validate_and_submit(Entering))
    /\ event' = "submit"
    /\ toggles' = 0
    /\ base' = NoBase
    /\ recovering' = IF \E i \in DOMAIN shown' : IsError(shown'[i])
                     THEN Mode(is_login) ELSE "no"

\* The user clicks the toggle prompt (on_click=self.toggle_mode).
Toggle ==
    /\ Become(toggle_mode(Entering))
    /\ event' = "toggle"
    /\ toggles' = IF toggles = 1 THEN 2 ELSE 1
    /\ base' = IF toggles = 1 THEN base ELSE Snapshot(AuthForm)
    /\ recovering' = "no"

Next == Change \/ Submit \/ Toggle

Spec == Init /\ [][Next]_vars

(***************************************************************************)
(* The properties of the form.                                             *)
(***************************************************************************)

\* The bars the page is told to show by a submit of the form self.
Submitted(self) == validate_and_submit([self EXCEPT !.shown = <<>>]).shown

\* What an event reported: the message of its one Error bar, "Ok" for its
\* one Success bar, "none" for anything else.
Outcome(calls) ==
    IF Len(calls) = 1 /\ IsError(calls[1]) /\ ~IsSuccess(calls[1])
    THEN calls[1].message
    ELSE IF Len(calls) = 1 /\ IsSuccess(calls[1]) /\ ~IsError(calls[1])
    THEN "Ok"
    ELSE "none"

\* The validation rules in their order: when a rule fails, and what it says.
Rules(self) ==
    << [fails |-> self.name_field.value = <<>>,
        says  |-> "Please enter username"],
       [fails |-> self.pass_field.value = <<>>,
        says  |-> "Please enter password"],
       [fails |-> ~self.is_login /\ self.email_field.value = <<>>,
        says  |-> "Please enter email"],
       [fails |-> ~self.is_login
                  /\ self.pass_field.value # self.confirm_pass_field.value,
        says  |-> "Passwords don't match!"] >>

\* The message of the first rule that fails on self, "Ok" when none does.
FirstFailingRule(self) ==
    LET failing == {i \in DOMAIN Rules(self) : Rules(self)[i].fails}
    IN  IF failing = {} THEN "Ok"
        ELSE Rules(self)[CHOOSE i \in failing : \A j \in failing : i <= j].says

\* C1: every submit reports the first failing rule, in the order username,
\* password, (Signup only) email, (Signup only) confirmation; Ok when no rule
\* fails.  The rules are read on the form as it was when submit was clicked.
C1_FirstFailingRuleWins ==
    [][event' = "submit" => Outcome(shown') = FirstFailingRule(AuthForm)]_vars

\* C1 witness: a Signup submit on which two rules fail (no email, passwords
\* differ) has reported the earlier one.
C1_Witness ==
    /\ event = "submit"
    /\ ~is_login
    /\ email_field.value = <<>>
    /\ pass_field.value # confirm_pass_field.value
    /\ Outcome(shown) = "Please enter email"

\* C2 as stated: in Signup mode, whenever password differs from the
\* confirmation and username and email are non-empty, submit reports
\* "Passwords don't match!".
C2_MismatchWheneverDifferent ==
    (/\ event = "submit"
     /\ ~is_login
     /\ pass_field.value # confirm_pass_field.value
     /\ Truthy(name_field.value)
     /\ Truthy(email_field.value))
    => Outcome(shown) = "Passwords don't match!"

\* C2 amended: in Signup mode, whenever a non-empty password differs from the
\* confirmation and username and email are non-empty, submit reports
\* "Passwords don't match!".
C2_MismatchWhenPasswordGiven ==
    (/\ event = "submit"
     /\ ~is_login
     /\ Truthy(pass_field.value)
     /\ pass_field.value # confirm_pass_field.value
     /\ Truthy(name_field.value)
     /\ Truthy(email_field.value))
    => Outcome(shown) = "Passwords don't match!"

\* C2 witness: a Signup submit with all four fields filled in and two
\* different passwords has been made.
C2_Witness ==
    /\ event = "submit"
    /\ ~is_login
    /\ Truthy(name_field.value)
    /\ Truthy(email_field.value)
    /\ Truthy(pass_field.value)
    /\ Truthy(confirm_pass_field.value)
    /\ pass_field.value # confirm_pass_field.value

\* C3: a submit that passes validation shows exactly the Success bar
\* "Login successful!" in Login mode and "Signup successful!" in Signup mode,
\* no Success bar carries another text, and a Login submit with username and
\* password filled in always shows "Login successful!".
C3_SuccessText ==
    event = "submit" =>
        /\ FirstFailingRule(AuthForm) = "Ok" =>
               /\ Outcome(shown) = "Ok"
               /\ shown[1].message =
                      IF is_login THEN "Login successful!"
                                  ELSE "Signup successful!"
        /\ \A i \in DOMAIN shown :
               IsSuccess(shown[i]) =>
                   shown[i].message =
                       IF is_login THEN "Login successful!"
                                   ELSE "Signup successful!"
        /\ (is_login /\ Truthy(name_field.value) /\ Truthy(pass_field.value))
               => /\ Outcome(shown) = "Ok"
                  /\ shown[1].message = "Login successful!"

\* C3 witness: a Signup submit has succeeded.
C3_Witness ==
    /\ event = "submit"
    /\ ~is_login
    /\ Outcome(shown) = "Ok"
    /\ shown[1].message = "Signup successful!"

\* C4: in every state the presentation follows the mode: the email and
\* confirmation fields are visible exactly in Signup mode, the button reads
\* "Login" or "Sign Up", the prompt reads "New here? Sign Up!" or "Already
\* have an account? Login!"; the form starts in Login mode with all four
\* fields empty.
C4_PresentationFollowsMode ==
    /\ email_field.visible = ~is_login
    /\ confirm_pass_field.visible = ~is_login
    /\ submit_button = IF is_login THEN "Login" ELSE "Sign Up"
    /\ toggle_text = IF is_login THEN "New here? Sign Up!"
                                 ELSE "Already have an account? Login!"
    /\ event = "init" =>
           /\ is_login
           /\ \A field \in Fields : AuthForm[field].value = <<>>

\* C4 witness: the form is in Signup mode after a toggle that followed edits
\* and a submit.
C4_Witness ==
    /\ event = "toggle"
    /\ ~is_login
    /\ email_field.visible
    /\ Truthy(name_field.value)
    /\ snack_bar # NoSnackBar

\* C5: after two toggle clicks in a row the mode, the button's text, the
\* prompt's text, the fields (values and visibility) and the snack bar on
\* the page are what they were before the two clicks.
C5_ToggleTwiceRestores ==
    toggles = 2 => Snapshot(AuthForm) = base

\* C5 witness: two toggle clicks in a row were made from Signup mode, with
\* text in the fields and a snack bar on the page.
C5_Witness ==
    /\ toggles = 2
    /\ ~is_login
    /\ Truthy(email_field.value)
    /\ snack_bar # NoSnackBar

\* C6: a submit, failing or succeeding, leaves the mode, the four fields
\* (values and visibility), the button's text and the prompt's text as they
\* were.
C6_SubmitChangesOnlyNotification ==
    [][event' = "submit" =>
          UNCHANGED <<is_login, name_field, email_field, pass_field,
                      confirm_pass_field, submit_button, toggle_text>>]_vars

\* C6 witness: a Signup submit has succeeded and the fields still hold text.
C6_Witness ==
    /\ event = "submit"
    /\ ~is_login
    /\ Outcome(shown) = "Ok"
    /\ \A field \in Fields : Truthy(AuthForm[field].value)

\* C7: a toggle leaves the four field values as they were and shows no snack
\* bar (the page keeps the one it had); so after a toggle to Login and back
\* the Signup values are those entered before, and a submit that follows is
\* validated against them.
C7_ToggleKeepsValues ==
    [][/\ event' = "toggle" =>
              /\ \A field \in Fields :
                     AuthForm[field].value' = AuthForm[field].value
              /\ shown' = <<>>
              /\ snack_bar' = snack_bar
       /\ (event' = "submit" /\ toggles = 2) =>
              Outcome(shown') = FirstFailingRule(base)]_vars

\* C7 witness: the form is back in Signup mode after a toggle to Login and
\* back, with the email and the confirmation still filled in.
C7_Witness ==
    /\ event = "toggle"
    /\ toggles = 2
    /\ ~is_login
    /\ Truthy(email_field.value)
    /\ Truthy(confirm_pass_field.value)

\* The four messages an Error bar can carry.
ErrorMessages ==
    {"Please enter username", "Please enter password",
     "Please enter email", "Passwords don't match!"}

\* The two messages of the Signup-only rules.
SignupOnlyMessages == {"Please enter email", "Passwords don't match!"}

\* C8: every submit shows exactly one snack bar, an Error or a Success and
\* not both; an Error carries one of the four messages, and never one of the
\* two Signup-only messages in Login mode.
C8_OneNotificationPerSubmit ==
    event = "submit" =>
        /\ Len(shown) = 1
        /\ IsError(shown[1]) # IsSuccess(shown[1])
        /\ IsError(shown[1]) => shown[1].message \in ErrorMessages
        /\ (IsError(shown[1]) /\ is_login) =>
               shown[1].message \notin SignupOnlyMessages

\* C8 witness: a Signup submit has shown the Error "Passwords don't match!".
C8_Witness ==
    /\ event = "submit"
    /\ ~is_login
    /\ Len(shown) = 1
    /\ IsError(shown[1])
    /\ shown[1].message = "Passwords don't match!"

\* The form self after the user types value into field, which takes the
\* text only when the field is visible.
Typed(self, field, value) ==
    IF self[field].visible THEN set_value(self, field, value) ELSE self

\* How far validation of self gets: the number of the rule whose message
\* a submit reports, 5 when the submit succeeds.
Progress(self) ==
    LET outcome == Outcome(Submitted(self))
    IN  CASE outcome = "Please enter username"  -> 1
          [] outcome = "Please enter password"  -> 2
          [] outcome = "Please enter email"     -> 3
          [] outcome = "Passwords don't match!" -> 4
          [] outcome = "Ok"                     -> 5
          [] OTHER                              -> 0

\* C9: every validation error is recoverable by field edits alone, in the
\* same mode: whenever a submit would not succeed, some single edit of a
\* visible field leaves the mode as it is and gets validation further, so
\* that at most four edits lead to a form whose submit succeeds; and while
\* only edits have followed a failed submit, the mode is still the one the
\* submit failed in.
C9_ErrorsAreRecoverable ==
    /\ Progress(AuthForm) < 5 =>
           \E field \in Fields, value \in Values :
               LET edited == Typed(AuthForm, field, value)
               IN  /\ edited.is_login = is_login
                   /\ Progress(edited) > Progress(AuthForm)
    /\ recovering # "no" => recovering = Mode(is_login)

\* C9 witness: a Signup submit failed, only field edits followed, and a
\* submit would now succeed.
C9_Witness ==
    /\ recovering = "Signup"
    /\ event = "change"
    /\ ~is_login
    /\ Outcome(Submitted(AuthForm)) = "Ok"

\* C10: in Login mode what a submit shows does not depend on the hidden
\* fields: with any other email and confirmation in their place, the same
\* snack bar is shown.
C10_LoginIgnoresHiddenFields ==
    is_login =>
        /\ \A e \in Values, c \in Values :
               Submitted(set_value(set_value(AuthForm, "email_field", e),
                                   "confirm_pass_field", c))
                   = Submitted(AuthForm)
        /\ event = "submit" => shown = Submitted(AuthForm)

\* C10 witness: a Login submit has succeeded while the hidden fields hold
\* values left from a Signup session, the confirmation unlike the password.
C10_Witness ==
    /\ event = "submit"
    /\ is_login
    /\ Truthy(email_field.value)
    /\ Truthy(confirm_pass_field.value)
    /\ confirm_pass_field.value # pass_field.value
    /\ Outcome(shown) = "Ok"

====
